---- MODULE Spec2Model ----
\* sq_cache: sharded LRU cache with TTL sweep (lru_cache.go, the shard and
\* list files).  The recency list is modelled with its next/prev pointers over
\* a per-shard arena of node slots; slot 0 is the sentinel root.
EXTENDS Integers, Sequences, FiniteSets, TLC

\* ---------------------------------------------------------------- bounds
NumKeys == 3
NumTTLKeys == 1
NumVals == 2
MaxShardsBound == 2
MinItemsBound == 2
MaxItemsBound == 3
MaxNow == 3
LenSlack == 1

\* ------------------------------------------------------------ value domains
EmptyKey == 0
Keys == 1..NumKeys
AllKeys == 0..NumKeys
TTLKeys == 1..NumTTLKeys
NilValue == 0
Values == 1..NumVals

\* the values a key is stored with: every key with the first value, the keys of
\* TTLKeys with every value
ValuesOf(key) == IF key \in TTLKeys THEN Values ELSE {1}

ZeroTime == 0
Nil == 0 - 1
NodeSlots == NumKeys + 1
Root == 0

\* the configured default expiry and the explicit durations callers pass
ExpiryDurationInSeconds == 2
Durations == {0, 1}

\* ------------------------------------------------------------ CacheStatus
Opened == "Opened"
Started == "Started"
Stopped == "Stopped"
Closed == "Closed"

\* ------------------------------------------------------------ utils.go
\* stand-in for the leading 8 bytes of the SHA-1 digest of the key
Hash(k) == IF k = EmptyKey THEN 7 ELSE IF k % 4 = 0 THEN 2 * k + 1 ELSE 4 * k + 2

generateKey(value) == NumKeys + 1 - (((value - 1) % NumKeys) + 1)

generateShardId(key, maxItems) == Hash(key) % maxItems

\* ------------------------------------------------------------ telemetry
newTelemetry == [Add |-> 0, Update |-> 0, Hit |-> 0, Miss |-> 0, Evict |-> 0]

\* ------------------------------------------------------------ lruList
EmptyMap == [k \in {} |-> Nil]

newLRUList(sh) ==
    [sh EXCEPT !.next = [i \in 0..NodeSlots |-> IF i = Root THEN Root ELSE Nil],
               !.prev = [i \in 0..NodeSlots |-> IF i = Root THEN Root ELSE Nil],
               !.owner = [i \in 1..NodeSlots |-> FALSE],
               !.len = 0]

insert(sh, lln, at) ==
    LET s1 == [sh EXCEPT !.prev[lln] = at]
        s2 == [s1 EXCEPT !.next[lln] = s1.next[at]]
        s3 == [s2 EXCEPT !.next[s2.prev[lln]] = lln]
        s4 == [s3 EXCEPT !.prev[s3.next[lln]] = lln]
    IN [s4 EXCEPT !.owner[lln] = TRUE, !.len = s4.len + 1]

remove(sh, lln) ==
    LET s1 == [sh EXCEPT !.next[sh.prev[lln]] = sh.next[lln]]
        s2 == [s1 EXCEPT !.prev[s1.next[lln]] = s1.prev[lln]]
    IN [s2 EXCEPT !.next[lln] = Nil, !.prev[lln] = Nil,
                  !.owner[lln] = FALSE, !.len = s2.len - 1]

move(sh, lln, at) ==
    IF lln = at THEN sh
    ELSE LET s1 == [sh EXCEPT !.next[sh.prev[lln]] = sh.next[lln]]
             s2 == [s1 EXCEPT !.prev[s1.next[lln]] = s1.prev[lln]]
             s3 == [s2 EXCEPT !.prev[lln] = at]
             s4 == [s3 EXCEPT !.next[lln] = s3.next[at]]
             s5 == [s4 EXCEPT !.next[s4.prev[lln]] = lln]
         IN [s5 EXCEPT !.prev[s5.next[lln]] = lln]

Front(sh) == IF sh.len = 0 THEN Nil ELSE sh.next[Root]

Back(sh) == IF sh.len = 0 THEN Nil ELSE sh.prev[Root]

Remove(sh, lln) == IF sh.owner[lln] THEN remove(sh, lln) ELSE sh

PushFront(sh, lln) == insert(sh, lln, Root)

MoveToFront(sh, lln) ==
    IF ~sh.owner[lln] \/ sh.next[Root] = lln THEN sh ELSE move(sh, lln, Root)

\* ------------------------------------------------------------ node storage
\* nodes reached from the root by following next, at most n steps
RECURSIVE Chain(_, _, _)
Chain(sh, from, n) ==
    LET nx == sh.next[from]
    IN IF n = 0 \/ nx = Root \/ nx = Nil THEN <<>>
       ELSE <<nx>> \o Chain(sh, nx, n - 1)

Linked(sh) == Chain(sh, Root, NodeSlots + 1)

SeqRange(s) == {s[i] : i \in 1..Len(s)}

Referenced(sh) == SeqRange(Linked(sh)) \cup {sh.nodes[k] : k \in DOMAIN sh.nodes}

RECURSIVE Ascending(_)
Ascending(S) ==
    IF S = {} THEN <<>>
    ELSE LET m == CHOOSE x \in S : \A y \in S : x <= y
         IN <<m>> \o Ascending(S \ {m})

IndexOf(s, x) == CHOOSE i \in 1..Len(s) : s[i] = x

\* Node addresses are observable only through pointer equality.  A node no
\* pointer of the shard refers to is reclaimed by the runtime, and the live
\* nodes are renumbered in list order, so that two heaps that differ only in
\* the addresses of their nodes are one state.
gc(sh) ==
    LET live == Linked(sh) \o Ascending({sh.nodes[k] : k \in DOMAIN sh.nodes} \ SeqRange(Linked(sh)))
        dead == (1..NodeSlots) \ SeqRange(live)
        ord == live \o Ascending(dead)
        old(i) == ord[i]
        ptr(p) == IF p = Root \/ p = Nil THEN p
                  ELSE IF p \in dead THEN Nil ELSE IndexOf(ord, p)
        isDead(i) == i # Root /\ old(i) \in dead
    IN [sh EXCEPT
          !.next = [i \in 0..NodeSlots |-> IF i = Root THEN ptr(sh.next[Root])
                                           ELSE IF isDead(i) THEN Nil ELSE ptr(sh.next[old(i)])],
          !.prev = [i \in 0..NodeSlots |-> IF i = Root THEN ptr(sh.prev[Root])
                                           ELSE IF isDead(i) THEN Nil ELSE ptr(sh.prev[old(i)])],
          !.owner = [i \in 1..NodeSlots |-> IF isDead(i) THEN FALSE ELSE sh.owner[old(i)]],
          !.key = [i \in 1..NodeSlots |-> IF isDead(i) THEN EmptyKey ELSE sh.key[old(i)]],
          !.val = [i \in 1..NodeSlots |-> IF isDead(i) THEN NilValue ELSE sh.val[old(i)]],
          !.ttl = [i \in 1..NodeSlots |-> IF isDead(i) THEN ZeroTime ELSE sh.ttl[old(i)]],
          !.nodes = [k \in DOMAIN sh.nodes |-> ptr(sh.nodes[k])]]

newLRUListNode(sh) ==
    CHOOSE i \in 1..NodeSlots :
        /\ i \notin Referenced(sh)
        /\ \A j \in 1..NodeSlots : j \notin Referenced(sh) => i <= j

\* ------------------------------------------------------------ lruCacheShard
newLRUCacheShard ==
    newLRUList([next |-> <<>>, prev |-> <<>>, owner |-> <<>>, len |-> 0,
                key |-> [i \in 1..NodeSlots |-> EmptyKey],
                val |-> [i \in 1..NodeSlots |-> NilValue],
                ttl |-> [i \in 1..NodeSlots |-> ZeroTime],
                nodes |-> EmptyMap,
                telemetry |-> newTelemetry])

MapPut(m, k, item) == [x \in DOMAIN m \cup {k} |-> IF x = k THEN item ELSE m[x]]

MapDelete(m, k) == [x \in DOMAIN m \ {k} |-> m[x]]

\* the hooks of utils.go only log; the call is recorded, no counter is touched
hook(telemetryOn, name) == IF telemetryOn THEN <<name>> ELSE <<>>

\* result of a shard operation: the shard afterwards and what the call returns
getItemFromPool(sh, key, value, ttl) ==
    LET item == newLRUListNode(sh)
    IN [sh |-> [sh EXCEPT !.key[item] = key, !.val[item] = value, !.ttl[item] = ttl,
                          !.next[item] = Nil, !.prev[item] = Nil, !.owner[item] = FALSE],
        item |-> item]

\* variant: the node is unlinked but its key stays in the map
removeItem_keepsMapEntry(sh, item, telemetryOn) ==
    [sh |-> Remove(sh, item), keys |-> {sh.key[item]},
     hooks |-> hook(telemetryOn, "onEvict")]

removeItem(sh, item, telemetryOn) ==
    LET s1 == Remove(sh, item)
    IN [sh |-> [s1 EXCEPT !.nodes = MapDelete(s1.nodes, s1.key[item])],
        keys |-> {s1.key[item]},
        hooks |-> hook(telemetryOn, "onEvict")]

removeItemOldest(sh, telemetryOn) ==
    IF Back(sh) # Nil THEN removeItem(sh, Back(sh), telemetryOn)
    ELSE [sh |-> sh, keys |-> {}, hooks |-> <<>>]

\* variant: the sweep treats no entry as expired
Expired_never(sh, item, t) == FALSE

\* variant: an entry expires at its expiry time, not after it
Expired_inclusive(sh, item, t) == sh.ttl[item] <= t /\ sh.ttl[item] # ZeroTime

Expired(sh, item, t) == sh.ttl[item] < t /\ sh.ttl[item] # ZeroTime

\* the range over the map visits every entry once, in an order the runtime picks;
\* entries deleted during the range are not visited again
RECURSIVE CleanupLoop(_, _, _, _)
CleanupLoop(sh, todo, t, telemetryOn) ==
    IF todo = {} THEN [sh |-> sh, evictCount |-> 0, keys |-> {}, hooks |-> <<>>]
    ELSE LET k == CHOOSE x \in todo : TRUE
             item == sh.nodes[k]
             r == IF Expired(sh, item, t) THEN removeItem(sh, item, telemetryOn)
                  ELSE [sh |-> sh, keys |-> {}, hooks |-> <<>>]
             rest == CleanupLoop(r.sh, (todo \ {k}) \cap DOMAIN r.sh.nodes, t, telemetryOn)
         IN [sh |-> rest.sh,
             evictCount |-> (IF Expired(sh, item, t) THEN 1 ELSE 0) + rest.evictCount,
             keys |-> r.keys \cup rest.keys,
             hooks |-> r.hooks \o rest.hooks]

CleanupShard(sh, t, telemetryOn) == CleanupLoop(sh, DOMAIN sh.nodes, t, telemetryOn)

\* variant: the eviction test looks at the shard's own size
ShardSet_usesShardSize(sh, cacheLen, key, value, ttl, maxItems, telemetryOn) ==
    LET g == getItemFromPool(sh, key, value, ttl)
    IN IF key \in DOMAIN sh.nodes
       THEN LET item == g.sh.nodes[key]
                s1 == MoveToFront(g.sh, item)
            IN [sh |-> [s1 EXCEPT !.val[item] = value, !.ttl[item] = ttl],
                evicted |-> FALSE, added |-> FALSE, keys |-> {},
                hooks |-> hook(telemetryOn, "onUpdate")]
       ELSE LET s1 == PushFront(g.sh, g.item)
                s2 == [s1 EXCEPT !.nodes = MapPut(s1.nodes, key, g.item)]
                ev == removeItemOldest(s2, telemetryOn)
            IN IF sh.len >= maxItems
               THEN [sh |-> ev.sh, evicted |-> TRUE, added |-> FALSE, keys |-> ev.keys,
                     hooks |-> hook(telemetryOn, "onAdd") \o ev.hooks]
               ELSE [sh |-> s2, evicted |-> FALSE, added |-> TRUE, keys |-> {},
                     hooks |-> hook(telemetryOn, "onAdd")]

\* variant: an update keeps the expiry the entry had
ShardSet_updateKeepsTTL(sh, cacheLen, key, value, ttl, maxItems, telemetryOn) ==
    LET g == getItemFromPool(sh, key, value, ttl)
    IN IF key \in DOMAIN sh.nodes
       THEN LET item == g.sh.nodes[key]
                s1 == MoveToFront(g.sh, item)
            IN [sh |-> [s1 EXCEPT !.val[item] = value],
                evicted |-> FALSE, added |-> FALSE, keys |-> {},
                hooks |-> hook(telemetryOn, "onUpdate")]
       ELSE LET s1 == PushFront(g.sh, g.item)
                s2 == [s1 EXCEPT !.nodes = MapPut(s1.nodes, key, g.item)]
                ev == removeItemOldest(s2, telemetryOn)
            IN IF cacheLen >= maxItems
               THEN [sh |-> ev.sh, evicted |-> TRUE, added |-> FALSE, keys |-> ev.keys,
                     hooks |-> hook(telemetryOn, "onAdd") \o ev.hooks]
               ELSE [sh |-> s2, evicted |-> FALSE, added |-> TRUE, keys |-> {},
                     hooks |-> hook(telemetryOn, "onAdd")]

ShardSet(sh, cacheLen, key, value, ttl, maxItems, telemetryOn) ==
    LET g == getItemFromPool(sh, key, value, ttl)
    IN IF key \in DOMAIN sh.nodes
       THEN LET item == g.sh.nodes[key]
                s1 == MoveToFront(g.sh, item)
            IN [sh |-> [s1 EXCEPT !.val[item] = value, !.ttl[item] = ttl],
                evicted |-> FALSE, added |-> FALSE, keys |-> {},
                hooks |-> hook(telemetryOn, "onUpdate")]
       ELSE LET s1 == PushFront(g.sh, g.item)
                s2 == [s1 EXCEPT !.nodes = MapPut(s1.nodes, key, g.item)]
                ev == removeItemOldest(s2, telemetryOn)
            IN IF cacheLen >= maxItems
               THEN [sh |-> ev.sh, evicted |-> TRUE, added |-> FALSE, keys |-> ev.keys,
                     hooks |-> hook(telemetryOn, "onAdd") \o ev.hooks]
               ELSE [sh |-> s2, evicted |-> FALSE, added |-> TRUE, keys |-> {},
                     hooks |-> hook(telemetryOn, "onAdd")]

\* variant: a hit does not refresh the recency of the entry
ShardGet_noMoveToFront(sh, key, telemetryOn) ==
    IF key \in DOMAIN sh.nodes
    THEN [sh |-> sh, value |-> sh.val[sh.nodes[key]], found |-> TRUE,
          hooks |-> hook(telemetryOn, "onHit")]
    ELSE [sh |-> sh, value |-> NilValue, found |-> FALSE,
          hooks |-> hook(telemetryOn, "onMiss")]

\* variant: a hit returns the value of the entry at the front
ShardGet_returnsFrontValue(sh, key, telemetryOn) ==
    IF key \in DOMAIN sh.nodes
    THEN LET item == sh.nodes[key]
         IN [sh |-> MoveToFront(sh, item), value |-> sh.val[Front(sh)], found |-> TRUE,
             hooks |-> hook(telemetryOn, "onHit")]
    ELSE [sh |-> sh, value |-> NilValue, found |-> FALSE,
          hooks |-> hook(telemetryOn, "onMiss")]

ShardGet(sh, key, telemetryOn) ==
    IF key \in DOMAIN sh.nodes
    THEN LET item == sh.nodes[key]
         IN [sh |-> MoveToFront(sh, item), value |-> sh.val[item], found |-> TRUE,
             hooks |-> hook(telemetryOn, "onHit")]
    ELSE [sh |-> sh, value |-> NilValue, found |-> FALSE,
          hooks |-> hook(telemetryOn, "onMiss")]

ShardContains(sh, key, telemetryOn) ==
    IF key \in DOMAIN sh.nodes
    THEN [sh |-> sh, value |-> NilValue, found |-> TRUE, hooks |-> hook(telemetryOn, "onHit")]
    ELSE [sh |-> sh, value |-> NilValue, found |-> FALSE, hooks |-> hook(telemetryOn, "onMiss")]

\* variant: a Peek refreshes the recency of the entry
ShardPeek_movesToFront(sh, key, telemetryOn) ==
    IF key \in DOMAIN sh.nodes
    THEN [sh |-> MoveToFront(sh, sh.nodes[key]), value |-> sh.val[sh.nodes[key]],
          found |-> TRUE, hooks |-> hook(telemetryOn, "onHit")]
    ELSE [sh |-> sh, value |-> NilValue, found |-> FALSE,
          hooks |-> hook(telemetryOn, "onMiss")]

ShardPeek(sh, key, telemetryOn) ==
    IF key \in DOMAIN sh.nodes
    THEN [sh |-> sh, value |-> sh.val[sh.nodes[key]], found |-> TRUE,
          hooks |-> hook(telemetryOn, "onHit")]
    ELSE [sh |-> sh, value |-> NilValue, found |-> FALSE,
          hooks |-> hook(telemetryOn, "onMiss")]

\* variant: a Remove reports a removal also for a key the shard does not hold
ShardRemove_reportsAlways(sh, key, telemetryOn) ==
    IF key \in DOMAIN sh.nodes
    THEN LET r == removeItem(sh, sh.nodes[key], telemetryOn)
         IN [sh |-> r.sh, removed |-> TRUE, keys |-> r.keys, hooks |-> r.hooks]
    ELSE [sh |-> sh, removed |-> TRUE, keys |-> {}, hooks |-> hook(telemetryOn, "onMiss")]

ShardRemove(sh, key, telemetryOn) ==
    IF key \in DOMAIN sh.nodes
    THEN LET r == removeItem(sh, sh.nodes[key], telemetryOn)
         IN [sh |-> r.sh, removed |-> TRUE, keys |-> r.keys, hooks |-> r.hooks]
    ELSE [sh |-> sh, removed |-> FALSE, keys |-> {}, hooks |-> hook(telemetryOn, "onMiss")]

\* variant: the list is replaced but the map is kept
ShardPurge_keepsMap(sh) == newLRUList(sh)

ShardPurge(sh) == [newLRUList(sh) EXCEPT !.nodes = EmptyMap]

ShardTelemetryReset(sh) == [sh EXCEPT !.telemetry = newTelemetry]

\* ------------------------------------------------------------ LRUCache
\* last: the most recent call and what it returned (key and val are the
\* arguments of a store; ret is the returned key, value or evict count; found is
\* the returned flag; removed are the keys the call passed to removeItem; chain
\* tells that the call repeats or reads back the call right before it).
\* used: for every shard, its live keys from the most to the least recently
\* stored or read with Get, kept by the callers' view of the calls, not by the list.
\* tasks, locks, purging and sweeping are the positions of the goroutines inside
\* the calls and the holders of the shards' RWMutex; they move only in the
\* specification that interleaves the calls statement by statement (SpecTasks),
\* which leaves last and used, the record of calls made one after the other, alone.
\* ticking: whether the context given to NewLRUCache is cancelled and whether
\* cleanupTicker has returned; it moves only in the specification of the
\* scheduler (SpecTicker), where last records what the scheduler handled.
VARIABLES maxShards, maxItems, shardTelemetryOn, status, shards, len,
          isCleanupTickerActive, now, crashed, last, used,
          tasks, locks, purging, sweeping, ticking

vars == <<maxShards, maxItems, shardTelemetryOn, status, shards, len,
          isCleanupTickerActive, now, crashed, last, used,
          tasks, locks, purging, sweeping, ticking>>

config == <<maxShards, maxItems, shardTelemetryOn>>

tasking == <<tasks, locks, purging, sweeping, ticking>>

\* the goroutines: NumTasks callers, the task that calls Stop, Purge and Start,
\* and one sweep goroutine per shard
NumTasks == 2

Tasks == 1..NumTasks

NoTask == 0

PurgeTask == NumTasks + 1

SweepTask(i) == NumTasks + 1 + i

IdleTask ==
    [pc |-> "idle", op |-> "", key |-> EmptyKey, val |-> NilValue, ttl |-> ZeroTime]

\* sync.RWMutex: w is the holder of the exclusive lock, r the holders of the shared one
FreeLock == [w |-> NoTask, r |-> {}]

\* NewLRUCache copies loggingOn but never telemetryOn: the field keeps its zero value
telemetryOn == FALSE

ErrNone == "nil"
ErrClosed == "cache is closed"
ErrStopped(op) == "cache is stopped, must be started before calling method " \o op \o "()"
ErrStarted == "cache is started, must be stopped before calling method Purge()"
ErrDisabled == "cache telemetry is disabled"
Panic == "panic"

Result(op, err, ret, found, hooks) ==
    [op |-> op, key |-> EmptyKey, val |-> NilValue, err |-> err, ret |-> ret,
     found |-> found, removed |-> {}, hooks |-> hooks, chain |-> FALSE]

SelectKeys(s, S) == SelectSeq(s, LAMBDA x : x \in S)

\* the callers' view after a call: key (if any) was just stored or read, and
\* the keys no longer held by the shard are forgotten
Touch(i, key, sh) ==
    [used EXCEPT ![i] = SelectKeys(<<key>> \o SelectKeys(used[i], DOMAIN sh.nodes \ {key}),
                                   DOMAIN sh.nodes)]

Forget(ss) == [i \in 1..Len(ss) |-> SelectKeys(used[i], DOMAIN ss[i].nodes)]

Init ==
    /\ maxShards = MaxShardsBound
    /\ maxItems \in MinItemsBound..MaxItemsBound
    /\ shardTelemetryOn = TRUE
    /\ status = Started
    /\ shards = [i \in 1..maxShards |-> newLRUCacheShard]
    /\ len = 0
    /\ isCleanupTickerActive = TRUE
    /\ now = 1
    /\ crashed = FALSE
    /\ last = Result("NewLRUCache", ErrNone, 0, FALSE, <<>>)
    /\ used = [i \in 1..maxShards |-> <<>>]
    /\ tasks = [t \in Tasks |-> IdleTask]
    /\ locks = [i \in 1..maxShards |-> FreeLock]
    /\ purging = [pc |-> "idle", shardId |-> 0]
    /\ sweeping = [i \in 1..maxShards |-> [pc |-> "idle", evictCount |-> 0]]
    /\ ticking = [done |-> FALSE, returned |-> FALSE]

HasExpiry(sh) == \E k \in DOMAIN sh.nodes : sh.ttl[sh.nodes[k]] # ZeroTime

\* time.Now() is used only to compute an expiry and to compare against one, so
\* a reading is observable only relative to the expiries stored: while no entry
\* carries an expiry the clock origin is re-based to the first reading
Clock(ss) == IF \E i \in 1..Len(ss) : HasExpiry(ss[i]) THEN now ELSE 1

\* indexing cache.shards outside its length panics
InRange(shardId) == shardId >= 0 /\ shardId < Len(shards)

\* the counter is explored from LenSlack below zero to LenSlack above the eviction threshold
LenOK(n) == n >= 0 - LenSlack /\ n <= maxItems + LenSlack

Gate(op) ==
    IF status = Closed THEN Result(op, ErrClosed, 0, FALSE, <<>>)
    ELSE Result(op, ErrStopped(op), 0, FALSE, <<>>)

Start ==
    /\ ~crashed
    /\ status' = Started
    /\ last' = Result("Start", ErrNone, 0, FALSE, <<>>)
    /\ UNCHANGED <<config, tasking, shards, len, isCleanupTickerActive, now, crashed, used>>

Stop ==
    /\ ~crashed
    /\ status' = Stopped
    /\ last' = Result("Stop", ErrNone, 0, FALSE, <<>>)
    /\ UNCHANGED <<config, tasking, shards, len, isCleanupTickerActive, now, crashed, used>>

Close ==
    /\ ~crashed
    /\ shards' = <<>>
    /\ used' = <<>>
    /\ status' = Closed
    /\ last' = Result("Close", ErrNone, 0, FALSE, <<>>)
    /\ now' = Clock(shards')
    /\ UNCHANGED <<config, tasking, len, isCleanupTickerActive, crashed>>

\* variant: an evicting store takes one off the counter and adds nothing back
SetBody_evictDropsIncrement(op, key, value, ttl) ==
    IF status \in {Closed, Stopped}
    THEN /\ last' = Gate(op)
         /\ UNCHANGED <<shards, len, crashed, used>>
    ELSE LET k == IF key = EmptyKey THEN generateKey(value) ELSE key
             shardId == generateShardId(k, maxItems)
         IN IF ~InRange(shardId)
            THEN /\ crashed' = TRUE
                 /\ last' = Result(op, Panic, 0, FALSE, <<>>)
                 /\ UNCHANGED <<shards, len, used>>
            ELSE LET r == ShardSet(shards[shardId + 1], len, k, value, ttl,
                                   maxItems, shardTelemetryOn)
                     n == IF r.evicted THEN len - 1 ELSE len + 1
                 IN /\ LenOK(n)
                    /\ shards' = [shards EXCEPT ![shardId + 1] = gc(r.sh)]
                    /\ len' = n
                    /\ used' = Touch(shardId + 1, k, r.sh)
                    /\ last' = [Result(op, ErrNone, k, r.evicted, r.hooks)
                                  EXCEPT !.key = key, !.val = value, !.removed = r.keys]
                    /\ UNCHANGED crashed

\* variant: a stopped cache still stores
SetBody_noStoppedGate(op, key, value, ttl) ==
    IF status = Closed
    THEN /\ last' = Gate(op)
         /\ UNCHANGED <<shards, len, crashed, used>>
    ELSE LET k == IF key = EmptyKey THEN generateKey(value) ELSE key
             shardId == generateShardId(k, maxItems)
         IN IF ~InRange(shardId)
            THEN /\ crashed' = TRUE
                 /\ last' = Result(op, Panic, 0, FALSE, <<>>)
                 /\ UNCHANGED <<shards, len, used>>
            ELSE LET r == ShardSet(shards[shardId + 1], len, k, value, ttl,
                                   maxItems, shardTelemetryOn)
                     n == (IF r.evicted THEN len - 1 ELSE len) + 1
                 IN /\ LenOK(n)
                    /\ shards' = [shards EXCEPT ![shardId + 1] = gc(r.sh)]
                    /\ len' = n
                    /\ used' = Touch(shardId + 1, k, r.sh)
                    /\ last' = [Result(op, ErrNone, k, r.evicted, r.hooks)
                                  EXCEPT !.key = key, !.val = value, !.removed = r.keys]
                    /\ UNCHANGED crashed

\* the body shared by Set and SetWithTTL once ttl is computed
SetBody(op, key, value, ttl) ==
    IF status \in {Closed, Stopped}
    THEN /\ last' = Gate(op)
         /\ UNCHANGED <<shards, len, crashed, used>>
    ELSE LET k == IF key = EmptyKey THEN generateKey(value) ELSE key
             shardId == generateShardId(k, maxItems)
         IN IF ~InRange(shardId)
            THEN /\ crashed' = TRUE
                 /\ last' = Result(op, Panic, 0, FALSE, <<>>)
                 /\ UNCHANGED <<shards, len, used>>
            ELSE LET r == ShardSet(shards[shardId + 1], len, k, value, ttl,
                                   maxItems, shardTelemetryOn)
                     n == (IF r.evicted THEN len - 1 ELSE len) + 1
                 IN /\ LenOK(n)
                    /\ shards' = [shards EXCEPT ![shardId + 1] = gc(r.sh)]
                    /\ len' = n
                    /\ used' = Touch(shardId + 1, k, r.sh)
                    /\ last' = [Result(op, ErrNone, k, r.evicted, r.hooks)
                                  EXCEPT !.key = key, !.val = value, !.removed = r.keys]
                    /\ UNCHANGED crashed

Set(key, value) ==
    /\ ~crashed
    /\ SetBody("Set", key, value, ZeroTime)
    /\ now' = Clock(shards')
    /\ UNCHANGED <<config, tasking, status, isCleanupTickerActive>>

\* a store with an expiry is explored while the clock bound leaves room for
\* the expiry to pass (it passes two clock readings after the store at the earliest)
SetWithTTL(key, value, duration) ==
    /\ ~crashed
    /\ now + 2 <= MaxNow
    /\ SetBody("SetWithTTL", key, value,
               IF duration > 0 THEN now + duration ELSE now + ExpiryDurationInSeconds)
    /\ now' = Clock(shards')
    /\ UNCHANGED <<config, tasking, status, isCleanupTickerActive>>

\* the previous call was a successful store under this key
AfterSet(key) ==
    last.op \in {"Set", "SetWithTTL"} /\ last.err = ErrNone /\ last.ret = key

\* Get, Contains, Peek and Remove start alike: the status gate, then the
\* routing; Routed tells that the call reaches its shard, Unrouted is the
\* outcome when it does not
Routed(key) ==
    /\ status \notin {Closed, Stopped}
    /\ InRange(generateShardId(key, maxItems))

Unrouted(op) ==
    IF status \in {Closed, Stopped}
    THEN /\ last' = Gate(op)
         /\ UNCHANGED <<shards, len, crashed, used>>
    ELSE /\ crashed' = TRUE
         /\ last' = Result(op, Panic, 0, FALSE, <<>>)
         /\ UNCHANGED <<shards, len, used>>

Get(key) ==
    /\ ~crashed
    /\ IF Routed(key)
       THEN LET i == generateShardId(key, maxItems) + 1
                r == ShardGet(shards[i], key, shardTelemetryOn)
            IN /\ shards' = [shards EXCEPT ![i] = gc(r.sh)]
               /\ used' = IF r.found THEN Touch(i, key, r.sh) ELSE used
               /\ last' = [Result("Get", ErrNone, r.value, FALSE, r.hooks)
                             EXCEPT !.chain = AfterSet(key)]
               /\ UNCHANGED <<len, crashed>>
       ELSE Unrouted("Get")
    /\ now' = Clock(shards')
    /\ UNCHANGED <<config, tasking, status, isCleanupTickerActive>>

Contains(key) ==
    /\ ~crashed
    /\ IF Routed(key)
       THEN LET i == generateShardId(key, maxItems) + 1
                r == ShardContains(shards[i], key, shardTelemetryOn)
            IN /\ shards' = [shards EXCEPT ![i] = r.sh]
               /\ last' = Result("Contains", ErrNone, 0, r.found, r.hooks)
               /\ UNCHANGED <<len, crashed, used>>
       ELSE Unrouted("Contains")
    /\ UNCHANGED <<config, tasking, status, isCleanupTickerActive, now>>

Peek(key) ==
    /\ ~crashed
    /\ IF Routed(key)
       THEN LET i == generateShardId(key, maxItems) + 1
                r == ShardPeek(shards[i], key, shardTelemetryOn)
            IN /\ shards' = [shards EXCEPT ![i] = r.sh]
               /\ last' = Result("Peek", ErrNone, r.value, FALSE, r.hooks)
               /\ UNCHANGED <<len, crashed, used>>
       ELSE Unrouted("Peek")
    /\ UNCHANGED <<config, tasking, status, isCleanupTickerActive, now>>

\* variant: the counter is lowered only when an entry was removed
CacheRemove_countsOnlyRemoved(key) ==
    /\ ~crashed
    /\ IF Routed(key)
       THEN LET i == generateShardId(key, maxItems) + 1
                r == ShardRemove(shards[i], key, shardTelemetryOn)
                n == IF r.removed THEN len - 1 ELSE len
            IN /\ LenOK(n)
               /\ shards' = [shards EXCEPT ![i] = gc(r.sh)]
               /\ len' = n
               /\ used' = Forget(shards')
               /\ last' = [Result("Remove", ErrNone, 0, r.removed, r.hooks)
                             EXCEPT !.removed = r.keys]
               /\ UNCHANGED crashed
       ELSE Unrouted("Remove")
    /\ now' = Clock(shards')
    /\ UNCHANGED <<config, tasking, status, isCleanupTickerActive>>

CacheRemove(key) ==
    /\ ~crashed
    /\ IF Routed(key)
       THEN LET i == generateShardId(key, maxItems) + 1
                r == ShardRemove(shards[i], key, shardTelemetryOn)
            IN /\ LenOK(len - 1)
               /\ shards' = [shards EXCEPT ![i] = gc(r.sh)]
               /\ len' = len - 1
               /\ used' = Forget(shards')
               /\ last' = [Result("Remove", ErrNone, 0, r.removed, r.hooks)
                             EXCEPT !.removed = r.keys]
               /\ UNCHANGED crashed
       ELSE Unrouted("Remove")
    /\ now' = Clock(shards')
    /\ UNCHANGED <<config, tasking, status, isCleanupTickerActive>>

\* variant: a purge also resets the length counter
Purge_resetsLen ==
    /\ ~crashed
    /\ IF status = Closed
       THEN /\ last' = Result("Purge", ErrClosed, 0, FALSE, <<>>)
            /\ UNCHANGED <<shards, used, len>>
       ELSE IF status = Started
       THEN /\ last' = Result("Purge", ErrStarted, 0, FALSE, <<>>)
            /\ UNCHANGED <<shards, used, len>>
       ELSE /\ shards' = [i \in 1..Len(shards) |-> gc(ShardPurge(shards[i]))]
            /\ used' = Forget(shards')
            /\ len' = 0
            /\ last' = [Result("Purge", ErrNone, 0, FALSE, <<>>)
                          EXCEPT !.chain = (last.op = "Purge" /\ last.err = ErrNone)]
    /\ now' = Clock(shards')
    /\ UNCHANGED <<config, tasking, status, isCleanupTickerActive, crashed>>

\* variant: a started cache is purged as well
Purge_noStartedGate ==
    /\ ~crashed
    /\ IF status = Closed
       THEN /\ last' = Result("Purge", ErrClosed, 0, FALSE, <<>>)
            /\ UNCHANGED <<shards, used>>
       ELSE /\ shards' = [i \in 1..Len(shards) |-> gc(ShardPurge(shards[i]))]
            /\ used' = Forget(shards')
            /\ last' = [Result("Purge", ErrNone, 0, FALSE, <<>>)
                          EXCEPT !.chain = (last.op = "Purge" /\ last.err = ErrNone)]
    /\ now' = Clock(shards')
    /\ UNCHANGED <<config, tasking, status, len, isCleanupTickerActive, crashed>>

Purge ==
    /\ ~crashed
    /\ IF status = Closed
       THEN /\ last' = Result("Purge", ErrClosed, 0, FALSE, <<>>)
            /\ UNCHANGED <<shards, used>>
       ELSE IF status = Started
       THEN /\ last' = Result("Purge", ErrStarted, 0, FALSE, <<>>)
            /\ UNCHANGED <<shards, used>>
       ELSE /\ shards' = [i \in 1..Len(shards) |-> gc(ShardPurge(shards[i]))]
            /\ used' = Forget(shards')
            /\ last' = [Result("Purge", ErrNone, 0, FALSE, <<>>)
                          EXCEPT !.chain = (last.op = "Purge" /\ last.err = ErrNone)]
    /\ now' = Clock(shards')
    /\ UNCHANGED <<config, tasking, status, len, isCleanupTickerActive, crashed>>

\* the named result `telemetry` is nil and is never allocated: the first
\* telemetry.SetHitCounter of the loop dereferences it
Telemetry ==
    /\ ~crashed
    /\ IF status = Closed
       THEN /\ last' = Result("Telemetry", ErrClosed, 0, FALSE, <<>>)
            /\ UNCHANGED crashed
       ELSE IF ~telemetryOn
       THEN /\ last' = Result("Telemetry", ErrDisabled, 0, FALSE, <<>>)
            /\ UNCHANGED crashed
       ELSE IF Len(shards) > 0
       THEN /\ crashed' = TRUE
            /\ last' = Result("Telemetry", Panic, 0, FALSE, <<>>)
       ELSE /\ last' = Result("Telemetry", ErrNone, 0, FALSE, <<>>)
            /\ UNCHANGED crashed
    /\ UNCHANGED <<config, tasking, status, shards, len, isCleanupTickerActive, now, used>>

TelemetryReset ==
    /\ ~crashed
    /\ IF status = Closed
       THEN /\ last' = Result("TelemetryReset", ErrClosed, 0, FALSE, <<>>)
            /\ UNCHANGED shards
       ELSE IF ~telemetryOn
       THEN /\ last' = Result("TelemetryReset", ErrDisabled, 0, FALSE, <<>>)
            /\ UNCHANGED shards
       ELSE /\ shards' = [i \in 1..Len(shards) |-> ShardTelemetryReset(shards[i])]
            /\ last' = Result("TelemetryReset", ErrNone, 0, FALSE, <<>>)
    /\ UNCHANGED <<config, tasking, status, len, isCleanupTickerActive, now, crashed, used>>

\* ------------------------------------------------------------ cleanup ticker
RECURSIVE SumEvict(_, _)
SumEvict(rs, i) == IF i = 0 THEN 0 ELSE rs[i].evictCount + SumEvict(rs, i - 1)

RECURSIVE CatHooks(_, _)
CatHooks(rs, i) == IF i = 0 THEN <<>> ELSE CatHooks(rs, i - 1) \o rs[i].hooks

AllRemoved(rs) == UNION {rs[i].keys : i \in DOMAIN rs}

\* variant: a sweep that removes an entry empties every shard
cleanupShards_dropsNeighbours ==
    LET rs == [i \in 1..Len(shards) |-> CleanupShard(shards[i], now, shardTelemetryOn)]
        n == len + SumEvict(rs, Len(shards))
    IN /\ LenOK(n)
       /\ shards' = [i \in 1..Len(shards) |->
                       IF SumEvict(rs, Len(shards)) > 0
                       THEN gc(ShardPurge(rs[i].sh)) ELSE gc(rs[i].sh)]
       /\ len' = n
       /\ used' = Forget(shards')
       /\ last' = [Result("Tick", ErrNone, SumEvict(rs, Len(shards)), FALSE,
                          CatHooks(rs, Len(shards)))
                     EXCEPT !.removed = AllRemoved(rs)]

cleanupShards ==
    LET rs == [i \in 1..Len(shards) |-> CleanupShard(shards[i], now, shardTelemetryOn)]
        n == len + SumEvict(rs, Len(shards))
    IN /\ LenOK(n)
       /\ shards' = [i \in 1..Len(shards) |-> gc(rs[i].sh)]
       /\ len' = n
       /\ used' = Forget(shards')
       /\ last' = [Result("Tick", ErrNone, SumEvict(rs, Len(shards)), FALSE,
                          CatHooks(rs, Len(shards)))
                     EXCEPT !.removed = AllRemoved(rs)]

\* one firing of ticker.C handled by cleanupTicker
Tick ==
    /\ ~crashed
    /\ IF isCleanupTickerActive
       THEN cleanupShards
       ELSE /\ last' = Result("Tick", ErrNone, 0, FALSE, <<>>)
            /\ UNCHANGED <<shards, len, used>>
    /\ now' = Clock(shards')
    /\ UNCHANGED <<config, tasking, status, isCleanupTickerActive, crashed>>

\* the wall clock read by time.Now(); the passing of time is observable only
\* through an entry that carries an expiry
AdvanceTime ==
    /\ ~crashed
    /\ now < MaxNow
    /\ \E i \in 1..Len(shards) : HasExpiry(shards[i])
    /\ now' = now + 1
    /\ UNCHANGED <<config, tasking, status, shards, len, isCleanupTickerActive, crashed, last, used>>

Next ==
    \/ Start
    \/ Stop
    \/ Close
    \/ \E key \in AllKeys : \E value \in ValuesOf(key) : Set(key, value)
    \/ \E key \in TTLKeys, value \in Values, duration \in Durations :
           SetWithTTL(key, value, duration)
    \/ \E key \in AllKeys : Get(key)
    \/ \E key \in AllKeys : Contains(key)
    \/ \E key \in AllKeys : Peek(key)
    \/ \E key \in AllKeys : CacheRemove(key)
    \/ Purge
    \/ Telemetry
    \/ TelemetryReset
    \/ Tick
    \/ AdvanceTime

Spec == Init /\ [][Next]_vars

\* ------------------------------------------------------------ goroutines
\* The calls of LRUCache statement by statement: the status test, the Lock or
\* RLock of the shard, the call of the shard's method with the Unlock that
\* follows it, and the atomic additions to cache.len are steps of their own, so
\* that the calls of different goroutines interleave as the scheduler may
\* interleave them.
TaskKeys == {1, 2}

TaskDuration == 1

StoreOps == {"Set", "SetWithTTL"}

ExclusiveOps == StoreOps \cup {"Get", "Remove"}

SharedOps == {"Contains", "Peek"}

\* Get, Contains and Peek release their lock with defer, Set and Remove with
\* a plain statement after the shard's method returned
DeferredOps == {"Get", "Contains", "Peek"}

\* the workload: task 1 stores, reads and removes under one key, the other
\* tasks look for that key and for another; an expiry is TaskDuration ahead
TaskOps(t) == IF t = 1 THEN {"Set", "SetWithTTL", "Get", "Remove"} ELSE {"Contains", "Peek"}

TaskKeysOf(t) == IF t = 1 THEN TTLKeys ELSE TaskKeys

TaskShard(t) == generateShardId(tasks[t].key, maxItems) + 1

Holds(t, i) == locks[i].w = t \/ t \in locks[i].r

Acquire(i, t, exclusive) ==
    IF exclusive THEN [locks EXCEPT ![i].w = t] ELSE [locks EXCEPT ![i].r = @ \cup {t}]

Release(i, t) ==
    IF locks[i].w = t THEN [locks EXCEPT ![i].w = NoTask] ELSE [locks EXCEPT ![i].r = @ \ {t}]

\* Lock waits until nobody holds the lock, RLock until nobody holds it exclusively
CanAcquire(i, exclusive) ==
    IF exclusive THEN locks[i] = FreeLock ELSE locks[i].w = NoTask

\* Clock for the interleaved calls: a reading is observable only relative to
\* the expiries held by the shards and those computed by calls still in flight
TaskClock(ss, ts) ==
    IF \/ \E i \in 1..Len(ss) : HasExpiry(ss[i])
       \/ \E t \in Tasks : ts[t].pc \notin {"idle", "panicked"} /\ ts[t].ttl # ZeroTime
    THEN now ELSE 1

\* the call up to the Lock: the status test, the key and the expiry
TaskCall(t, op, key, value) ==
    /\ ~crashed
    /\ tasks[t].pc = "idle"
    /\ op = "SetWithTTL" => key \in TTLKeys /\ now + 2 <= MaxNow
    /\ IF status \in {Closed, Stopped}
       THEN UNCHANGED tasks
       ELSE tasks' = [tasks EXCEPT ![t] =
                [pc |-> "routed", op |-> op, key |-> key,
                 val |-> IF op \in StoreOps THEN value ELSE NilValue,
                 ttl |-> IF op = "SetWithTTL" THEN now + TaskDuration ELSE ZeroTime]]
    /\ UNCHANGED <<config, ticking, status, shards, len, isCleanupTickerActive, now, crashed,
                   last, used, locks, purging, sweeping>>

\* cache.shards[shardId].Lock() or RLock()
TaskLock(t) ==
    /\ ~crashed
    /\ tasks[t].pc = "routed"
    /\ IF ~InRange(TaskShard(t) - 1)
       THEN /\ crashed' = TRUE
            /\ tasks' = [tasks EXCEPT ![t].pc = "panicked"]
            /\ UNCHANGED locks
       ELSE /\ CanAcquire(TaskShard(t), tasks[t].op \in ExclusiveOps)
            /\ locks' = Acquire(TaskShard(t), t, tasks[t].op \in ExclusiveOps)
            /\ tasks' = [tasks EXCEPT ![t].pc = "locked"]
            /\ UNCHANGED crashed
    /\ UNCHANGED <<config, ticking, status, shards, len, isCleanupTickerActive, now,
                   last, used, purging, sweeping>>

\* what the shard's method returns to the call of task t
TaskResult(t) ==
    LET sh == shards[TaskShard(t)]
        c == tasks[t]
    IN IF c.op \in StoreOps
       THEN ShardSet(sh, len, c.key, c.val, c.ttl, maxItems, shardTelemetryOn)
       ELSE IF c.op = "Get" THEN ShardGet(sh, c.key, shardTelemetryOn)
       ELSE IF c.op = "Contains" THEN ShardContains(sh, c.key, shardTelemetryOn)
       ELSE IF c.op = "Peek" THEN ShardPeek(sh, c.key, shardTelemetryOn)
       ELSE ShardRemove(sh, c.key, shardTelemetryOn)

\* the shard as the h-th hook called by the method finds it: a store of a new
\* key calls onAdd after the insertion and before the eviction test, every
\* other hook is the last statement to touch the shard
ShardAtHook(t, h) ==
    LET sh == shards[TaskShard(t)]
        c == tasks[t]
    IN IF c.op \in StoreOps /\ h = 1
       THEN ShardSet(sh, maxItems - 1, c.key, c.val, c.ttl, maxItems, shardTelemetryOn).sh
       ELSE TaskResult(t).sh

\* a hook panics: the panic leaves the shard's method and the call of the
\* cache; the deferred Unlock of Get, Contains and Peek runs, the Unlock
\* statement of Set and Remove does not.  The goroutine's caller recovers.
TaskHookPanics(t) ==
    /\ ~crashed
    /\ tasks[t].pc = "locked"
    /\ InRange(TaskShard(t) - 1)
    /\ \A u \in Tasks : tasks[u].pc # "panicked"
    /\ \E h \in 1..Len(TaskResult(t).hooks) :
          shards' = [shards EXCEPT ![TaskShard(t)] = gc(ShardAtHook(t, h))]
    /\ locks' = IF tasks[t].op \in DeferredOps THEN Release(TaskShard(t), t) ELSE locks
    /\ tasks' = [tasks EXCEPT ![t].pc = "panicked"]
    /\ now' = TaskClock(shards', tasks')
    /\ UNCHANGED <<config, ticking, status, len, isCleanupTickerActive, crashed,
                   last, used, purging, sweeping>>

\* the shard's method run to its return, and the Unlock or RUnlock that
\* follows it (no goroutine can act on the shard between the two); Set and
\* Remove go on to adjust cache.len, the other calls return.  The statement
\* indexes cache.shards anew: once Close has set it to nil the index panics
\* (a read that still sees the old array is the call ordered before Close).
TaskBody(t) ==
    /\ ~crashed
    /\ tasks[t].pc = "locked"
    /\ IF ~InRange(TaskShard(t) - 1)
       THEN /\ crashed' = TRUE
            /\ tasks' = [tasks EXCEPT ![t].pc = "panicked"]
            /\ UNCHANGED <<shards, locks, now>>
       ELSE /\ shards' = [shards EXCEPT ![TaskShard(t)] = gc(TaskResult(t).sh)]
            /\ locks' = Release(TaskShard(t), t)
            /\ tasks' = IF tasks[t].op \in StoreOps
                        THEN [tasks EXCEPT ![t].pc =
                                 IF TaskResult(t).evicted THEN "dec" ELSE "inc"]
                        ELSE IF tasks[t].op = "Remove" THEN [tasks EXCEPT ![t].pc = "dec"]
                        ELSE [tasks EXCEPT ![t] = IdleTask]
            /\ now' = TaskClock(shards', tasks')
            /\ UNCHANGED crashed
    /\ UNCHANGED <<config, ticking, status, len, isCleanupTickerActive,
                   last, used, purging, sweeping>>

\* cache.len.Add(-1) and cache.len.Add(1)
TaskAdd(t) ==
    /\ ~crashed
    /\ tasks[t].pc \in {"dec", "inc"}
    /\ LenOK(IF tasks[t].pc = "dec" THEN len - 1 ELSE len + 1)
    /\ len' = IF tasks[t].pc = "dec" THEN len - 1 ELSE len + 1
    /\ tasks' = IF tasks[t].pc = "dec" /\ tasks[t].op \in StoreOps
                THEN [tasks EXCEPT ![t].pc = "inc"]
                ELSE [tasks EXCEPT ![t] = IdleTask]
    /\ now' = TaskClock(shards, tasks')
    /\ UNCHANGED <<config, ticking, status, shards, isCleanupTickerActive, crashed,
                   last, used, locks, purging, sweeping>>

\* Start and Stop as called by the task that also calls Purge; purging.pc is
\* "returned" from the return of a successful Purge to that task's next call
TaskStart ==
    /\ ~crashed
    /\ purging.pc \in {"idle", "returned"}
    /\ status' = Started
    /\ purging' = [pc |-> "idle", shardId |-> 0]
    /\ UNCHANGED <<config, ticking, shards, len, isCleanupTickerActive, now, crashed,
                   last, used, tasks, locks, sweeping>>

TaskStop ==
    /\ ~crashed
    /\ purging.pc \in {"idle", "returned"}
    /\ status' = Stopped
    /\ purging' = [pc |-> "idle", shardId |-> 0]
    /\ UNCHANGED <<config, ticking, shards, len, isCleanupTickerActive, now, crashed,
                   last, used, tasks, locks, sweeping>>

\* Purge up to its loop: the status test
PurgeCall ==
    /\ ~crashed
    /\ purging.pc \in {"idle", "returned"}
    /\ purging' = IF status \in {Closed, Started}
                  THEN [pc |-> "idle", shardId |-> 0]
                  ELSE [pc |-> "lock", shardId |-> 0]
    /\ UNCHANGED <<config, ticking, status, shards, len, isCleanupTickerActive, now, crashed,
                   last, used, tasks, locks, sweeping>>

PurgeLock ==
    /\ ~crashed
    /\ purging.pc = "lock"
    /\ CanAcquire(purging.shardId + 1, TRUE)
    /\ locks' = Acquire(purging.shardId + 1, PurgeTask, TRUE)
    /\ purging' = [purging EXCEPT !.pc = "purge"]
    /\ UNCHANGED <<config, ticking, status, shards, len, isCleanupTickerActive, now, crashed,
                   last, used, tasks, sweeping>>

\* variant: the purge keeps the lock of a shard while it goes on to the next
PurgeShard_keepsLock ==
    /\ ~crashed
    /\ purging.pc = "purge"
    /\ shards' = [shards EXCEPT ![purging.shardId + 1] = gc(ShardPurge(@))]
    /\ locks' = IF purging.shardId + 1 < Len(shards)
                THEN locks ELSE [i \in 1..Len(shards) |->
                                   IF locks[i].w = PurgeTask THEN FreeLock ELSE locks[i]]
    /\ IF purging.shardId + 1 < Len(shards)
       THEN purging' = [pc |-> "lock", shardId |-> purging.shardId + 1]
       ELSE purging' = [pc |-> "returned", shardId |-> 0]
    /\ now' = TaskClock(shards', tasks)
    /\ UNCHANGED <<config, ticking, status, len, isCleanupTickerActive, crashed,
                   last, used, tasks, sweeping>>

\* the shard's Purge and the Unlock that follows it, then the next shard of
\* the loop or the return of the call
PurgeShard ==
    /\ ~crashed
    /\ purging.pc = "purge"
    /\ shards' = [shards EXCEPT ![purging.shardId + 1] = gc(ShardPurge(@))]
    /\ locks' = Release(purging.shardId + 1, PurgeTask)
    /\ IF purging.shardId + 1 < Len(shards)
       THEN purging' = [pc |-> "lock", shardId |-> purging.shardId + 1]
       ELSE purging' = [pc |-> "returned", shardId |-> 0]
    /\ now' = TaskClock(shards', tasks)
    /\ UNCHANGED <<config, ticking, status, len, isCleanupTickerActive, crashed,
                   last, used, tasks, sweeping>>

\* ticker.C fires: cleanupShards starts one goroutine per shard and waits for all
SweepTick ==
    /\ ~crashed
    /\ isCleanupTickerActive
    /\ \E i \in 1..Len(shards) : HasExpiry(shards[i])
    /\ \A i \in 1..Len(shards) : sweeping[i].pc = "idle"
    /\ sweeping' = [i \in 1..Len(shards) |-> [pc |-> "lock", evictCount |-> 0]]
    /\ UNCHANGED <<config, ticking, status, shards, len, isCleanupTickerActive, now, crashed,
                   last, used, tasks, locks, purging>>

\* cache.shards[shardId].Lock() in the goroutine of shard i: the goroutine
\* indexes cache.shards itself, and nobody recovers a panic of it
SweepLock(i) ==
    /\ ~crashed
    /\ sweeping[i].pc = "lock"
    /\ IF ~InRange(i - 1)
       THEN /\ crashed' = TRUE
            /\ UNCHANGED <<locks, sweeping>>
       ELSE /\ CanAcquire(i, TRUE)
            /\ locks' = Acquire(i, SweepTask(i), TRUE)
            /\ sweeping' = [sweeping EXCEPT ![i].pc = "clean"]
            /\ UNCHANGED crashed
    /\ UNCHANGED <<config, ticking, status, shards, len, isCleanupTickerActive, now,
                   last, used, tasks, purging>>

\* CleanupShard and the Unlock that follows it; cache.len.Add(0) changes
\* nothing and is not a step of its own
SweepShard(i) ==
    /\ ~crashed
    /\ sweeping[i].pc = "clean"
    /\ IF ~InRange(i - 1)
       THEN /\ crashed' = TRUE
            /\ UNCHANGED <<shards, sweeping, locks, now>>
       ELSE /\ LET r == CleanupShard(shards[i], now, shardTelemetryOn)
               IN /\ shards' = [shards EXCEPT ![i] = gc(r.sh)]
                  /\ sweeping' = [sweeping EXCEPT ![i] =
                           [pc |-> IF r.evictCount = 0 THEN "idle" ELSE "add",
                            evictCount |-> r.evictCount]]
            /\ locks' = Release(i, SweepTask(i))
            /\ now' = TaskClock(shards', tasks)
            /\ UNCHANGED crashed
    /\ UNCHANGED <<config, ticking, status, len, isCleanupTickerActive,
                   last, used, tasks, purging>>

\* cache.len.Add(evictCount)
SweepAdd(i) ==
    /\ ~crashed
    /\ sweeping[i].pc = "add"
    /\ LenOK(len + sweeping[i].evictCount)
    /\ len' = len + sweeping[i].evictCount
    /\ sweeping' = [sweeping EXCEPT ![i] = [pc |-> "idle", evictCount |-> 0]]
    /\ UNCHANGED <<config, ticking, status, shards, isCleanupTickerActive, now, crashed,
                   last, used, tasks, locks, purging>>

\* the wall clock moves while an entry or a call in flight carries an expiry
TaskTime ==
    /\ ~crashed
    /\ now < MaxNow
    /\ \/ \E i \in 1..Len(shards) : HasExpiry(shards[i])
       \/ \E t \in Tasks : tasks[t].pc \notin {"idle", "panicked"} /\ tasks[t].ttl # ZeroTime
    /\ now' = now + 1
    /\ UNCHANGED <<config, status, shards, len, isCleanupTickerActive, crashed, last, used,
                   tasking>>

NextTasks ==
    \/ \E t \in Tasks : \E op \in TaskOps(t) : \E key \in TaskKeysOf(t) : TaskCall(t, op, key, 1)
    \/ \E t \in Tasks : TaskLock(t)
    \/ \E t \in Tasks : TaskBody(t)
    \/ \E t \in Tasks : TaskHookPanics(t)
    \/ \E t \in Tasks : TaskAdd(t)
    \/ TaskStart
    \/ TaskStop
    \/ PurgeCall
    \/ PurgeLock
    \/ PurgeShard
    \/ SweepTick
    \/ \E i \in 1..Len(shards) : SweepLock(i)
    \/ \E i \in 1..Len(shards) : SweepShard(i)
    \/ \E i \in 1..Len(shards) : SweepAdd(i)
    \/ TaskTime

SpecTasks == Init /\ [][NextTasks]_vars

\* variant: the scheduler goes back to its select without waiting for the sweeps
TickerAtSelect_noJoin == ~ticking.returned

\* ------------------------------------------------------------ the scheduler
\* cleanupTicker, the goroutine started by NewLRUCache: a loop around a select
\* over the toggle channel, the ticker and ctx.Done().  A select with several
\* cases ready takes any one of them.  cleanupShards returns when every sweep
\* goroutine has returned (wg.Wait), so the scheduler is at its select exactly
\* while no sweep goroutine runs.  ticking.done: the context has been
\* cancelled; ticking.returned: cleanupTicker has returned.  The scheduler
\* writes what it handled to last.
TickerAtSelect ==
    /\ ~ticking.returned
    /\ \A i \in DOMAIN sweeping : sweeping[i].pc = "idle"

\* the owner of the context cancels it
Cancel ==
    /\ ~crashed
    /\ ~ticking.done
    /\ ticking' = [ticking EXCEPT !.done = TRUE]
    /\ UNCHANGED <<config, status, shards, len, isCleanupTickerActive, now, crashed,
                   last, used, tasks, locks, purging, sweeping>>

\* case active := <-cache.isCleanupActive, the rendezvous with cleanupStart
\* (active) or cleanupStop (not active)
TickerToggle(active) ==
    /\ ~crashed
    /\ TickerAtSelect
    /\ isCleanupTickerActive' = active
    /\ last' = Result("Toggle", ErrNone, IF active THEN 1 ELSE 0, FALSE, <<>>)
    /\ UNCHANGED <<config, status, shards, len, now, crashed, used, tasking>>

\* case <-ticker.C: with the toggle active cleanupShards starts one goroutine
\* for every index of cache.shards; last.ret is their number, last.found
\* tells that the cache was Stopped at that moment
TickerTick ==
    /\ ~crashed
    /\ TickerAtSelect
    /\ sweeping' = [i \in DOMAIN sweeping |->
                       IF isCleanupTickerActive /\ i <= Len(shards)
                       THEN [pc |-> "lock", evictCount |-> 0] ELSE sweeping[i]]
    /\ last' = Result("Tick", ErrNone, IF isCleanupTickerActive THEN Len(shards) ELSE 0,
                      status = Stopped, <<>>)
    /\ UNCHANGED <<config, status, shards, len, isCleanupTickerActive, now, crashed,
                   used, tasks, locks, purging, ticking>>

\* case <-cache.ctx.Done(): the ticker is stopped and cleanupTicker returns
TickerDone ==
    /\ ~crashed
    /\ TickerAtSelect
    /\ ticking.done
    /\ ticking' = [ticking EXCEPT !.returned = TRUE]
    /\ last' = Result("Done", ErrNone, 0, FALSE, <<>>)
    /\ UNCHANGED <<config, status, shards, len, isCleanupTickerActive, now, crashed,
                   used, tasks, locks, purging, sweeping>>

\* Close as called by the task that calls Start and Stop, while calls and
\* sweeps of other goroutines are under way: no lock is taken, the context
\* is not cancelled and nobody is waited for
TaskClose ==
    /\ ~crashed
    /\ purging.pc \in {"idle", "returned"}
    /\ status' = Closed
    /\ shards' = <<>>
    /\ purging' = [pc |-> "idle", shardId |-> 0]
    /\ now' = TaskClock(shards', tasks)
    /\ UNCHANGED <<config, len, isCleanupTickerActive, crashed, last, used,
                   tasks, locks, sweeping, ticking>>

\* the workload: one goroutine stores under one key, with and without expiry
TickerTasks == {1}

NextTicker ==
    \/ \E t \in TickerTasks : \E op \in StoreOps : \E key \in TTLKeys : TaskCall(t, op, key, 1)
    \/ \E t \in TickerTasks : TaskLock(t)
    \/ \E t \in TickerTasks : TaskBody(t)
    \/ \E t \in TickerTasks : TaskHookPanics(t)
    \/ \E t \in TickerTasks : TaskAdd(t)
    \/ TaskStart
    \/ TaskStop
    \/ TaskClose
    \/ Cancel
    \/ \E active \in BOOLEAN : TickerToggle(active)
    \/ TickerTick
    \/ TickerDone
    \/ \E i \in DOMAIN sweeping : SweepLock(i)
    \/ \E i \in DOMAIN sweeping : SweepShard(i)
    \/ \E i \in DOMAIN sweeping : SweepAdd(i)
    \/ TaskTime

SpecTicker == Init /\ [][NextTicker]_vars

\* ------------------------------------------------------------ observations
KeysInOrder(sh) == [i \in 1..Len(Linked(sh)) |-> sh.key[Linked(sh)[i]]]

ShardEmpty(sh) == sh.nodes = EmptyMap /\ sh.len = 0 /\ Linked(sh) = <<>>

RECURSIVE Entries(_, _)
Entries(ss, i) == IF i = 0 THEN 0 ELSE Cardinality(DOMAIN ss[i].nodes) + Entries(ss, i - 1)

TotalEntries == Entries(shards, Len(shards))

ShardOf(key) == generateShardId(key, maxItems) + 1

StoreKey(key, value) == IF key = EmptyKey THEN generateKey(value) ELSE key

Stores(key, value) ==
    \/ Set(key, value)
    \/ \E duration \in Durations : SetWithTTL(key, value, duration)

\* the map and the list of one shard index the same entries
MapListAgree(sh) ==
    LET l == Linked(sh)
        n == Len(l)
    IN /\ n = sh.len
       /\ Cardinality(DOMAIN sh.nodes) = sh.len
       /\ Cardinality(SeqRange(l)) = n
       /\ sh.next[IF n = 0 THEN Root ELSE l[n]] = Root
       /\ sh.prev[Root] = (IF n = 0 THEN Root ELSE l[n])
       /\ \A i \in 1..n : /\ sh.prev[l[i]] = (IF i = 1 THEN Root ELSE l[i - 1])
                          /\ sh.owner[l[i]]
                          /\ sh.key[l[i]] \in DOMAIN sh.nodes
                          /\ sh.nodes[sh.key[l[i]]] = l[i]
       /\ \A k \in DOMAIN sh.nodes : /\ sh.nodes[k] \in SeqRange(l)
                                     /\ sh.key[sh.nodes[k]] = k

\* C1: after every completed operation, in every shard the key->node map and
\* the recency list hold exactly the same entries: equal sizes, every mapped key
\* resolves to a linked node carrying that key, every linked node's key is
\* mapped to it, and no key is linked twice.
C1_MapListAgree == \A i \in 1..Len(shards) : MapListAgree(shards[i])

\* a sweep has just removed an expired entry from a shard that keeps another one
C1_Witness ==
    /\ last.op = "Tick"
    /\ last.ret >= 1
    /\ \E i \in 1..Len(shards) : shards[i].len >= 1 /\ used[i] # <<>>

\* the key held by the least recently used entry of a shard
BackKey(sh) == sh.key[Back(sh)]

\* the counters of all shards, summed as Telemetry() sums them
RECURSIVE SumCounter(_, _, _)
SumCounter(ss, c, i) ==
    IF i = 0 THEN 0 ELSE ss[i].telemetry[c] + SumCounter(ss, c, i - 1)

Counter(ss, c) == SumCounter(ss, c, Len(ss))

\* the step is a call of one of ops: every call writes its name to last, and
\* the clock step, which keeps last, is the only step to move now one up
CallOf(ops) == last'.op \in ops /\ now' # now + 1

GatedOps == {"Set", "SetWithTTL", "Get", "Contains", "Peek", "Remove"}

\* C2: a store of a new key that evicts from a shard holding other entries
\* evicts exactly the entry whose most recent Set, SetWithTTL or Get is the
\* oldest of that shard, which is the entry at the back of the list, and keeps
\* the stored key at the front; Peek and Contains leave the recency order of
\* every shard as it was.
C2_EvictsLeastRecentlyUsed ==
    [][/\ (/\ CallOf(StoreOps)
           /\ last'.err = ErrNone
           /\ last'.found
           /\ last'.ret \notin DOMAIN shards[ShardOf(last'.ret)].nodes
           /\ shards[ShardOf(last'.ret)].len >= 1)
          => LET k == last'.ret
                 i == ShardOf(k)
             IN /\ last'.removed = {used[i][Len(used[i])]}
                /\ last'.removed = {BackKey(shards[i])}
                /\ KeysInOrder(shards'[i])
                     = <<k>> \o SelectSeq(KeysInOrder(shards[i]),
                                          LAMBDA x : x \notin last'.removed)
       /\ CallOf({"Peek", "Contains"})
             => /\ used' = used
                /\ \A i \in 1..Len(shards) :
                      KeysInOrder(shards'[i]) = KeysInOrder(shards[i])
      ]_vars

\* with capacity 2, key 3 has just been stored and evicted key 2 while key 1,
\* stored or read after key 2, stays behind the new entry
C2_Witness ==
    /\ maxItems = 2
    /\ last.op = "Set"
    /\ last.err = ErrNone
    /\ last.found
    /\ last.ret = 3
    /\ last.removed = {2}
    /\ KeysInOrder(shards[ShardOf(3)]) = <<3, 1>>

\* C3: a Get of the key that the call right before it stored, on a started
\* cache, returns the stored value, and the entry is the front of its shard.
C3_SetThenGet ==
    [][(CallOf({"Get"}) /\ last'.chain /\ status = Started)
          => /\ last'.err = ErrNone
             /\ last'.ret = last.val
             /\ Len(KeysInOrder(shards'[ShardOf(last.ret)])) >= 1
             /\ KeysInOrder(shards'[ShardOf(last.ret)])[1] = last.ret
      ]_vars

\* C4: the number of entries held over all shards never exceeds maxItems.
C4_EntriesBounded == TotalEntries <= maxItems

\* C5: while the cache is stopped or closed, Set, SetWithTTL, Get, Contains,
\* Peek and Remove return an error (the closed error when closed, otherwise the
\* stopped error naming the method) and leave the stored entries, their
\* recency order, the length counter and the status unchanged.
C5_GatedCallsHaveNoEffect ==
    [][(status \in {Stopped, Closed} /\ CallOf(GatedOps))
          => /\ last'.err # ErrNone
             /\ last'.err = (IF status = Closed THEN ErrClosed
                             ELSE ErrStopped(last'.op))
             /\ UNCHANGED <<shards, len, used, status, crashed>>
      ]_vars

\* a stopped cache that holds an entry has just refused a Set
C5_Witness ==
    /\ status = Stopped
    /\ last.op = "Set"
    /\ last.err = ErrStopped("Set")
    /\ TotalEntries >= 1

C8_ClosedIsTerminal ==
    [][/\ (status = Closed) => (status' = Closed)
       /\ (status' # status)
             => \/ status' = Closed
                \/ <<status, status'>> \in {<<Started, Stopped>>, <<Stopped, Started>>}
      ]_vars

\* C9: no call on the cache panics.
C9_NoPanic == ~crashed

\* C10: with telemetry enabled every event raises its counter by one: a store
\* of a new key the add counter, a store of a held key the update counter, an
\* eviction the evict counter, a Get, Peek or Contains of a held key the hit
\* counter and of an absent key the miss counter, a Remove of an absent key the
\* miss counter, and a sweep the evict counter by the number of entries removed.
C10_CountersFollowEvents ==
    [][shardTelemetryOn /\ last'.err = ErrNone
          => /\ CallOf(StoreOps)
                   => /\ IF last'.ret \in DOMAIN shards[ShardOf(last'.ret)].nodes
                         THEN Counter(shards', "Update") = Counter(shards, "Update") + 1
                         ELSE Counter(shards', "Add") = Counter(shards, "Add") + 1
                      /\ Counter(shards', "Evict") = Counter(shards, "Evict")
                           + Cardinality(last'.removed)
             /\ CallOf({"Get", "Peek", "Contains"})
                   => IF last'.ret # NilValue \/ last'.found
                      THEN Counter(shards', "Hit") = Counter(shards, "Hit") + 1
                      ELSE Counter(shards', "Miss") = Counter(shards, "Miss") + 1
             /\ (CallOf({"Remove"}) /\ ~last'.found)
                   => Counter(shards', "Miss") = Counter(shards, "Miss") + 1
             /\ CallOf({"Tick"})
                   => Counter(shards', "Evict") = Counter(shards, "Evict") + last'.ret
      ]_vars

\* C11: Telemetry and TelemetryReset on a cache that is not closed return the
\* disabled error exactly when the configuration disables telemetry, and
\* return no error when it enables telemetry, TelemetryReset leaving all five
\* counters of every shard at zero.
C11_TelemetryFollowsConfig ==
    [][(CallOf({"Telemetry", "TelemetryReset"}) /\ status # Closed)
          => /\ (last'.err = ErrDisabled) = (~shardTelemetryOn)
             /\ shardTelemetryOn => last'.err = ErrNone
             /\ (shardTelemetryOn /\ last'.op = "TelemetryReset")
                   => \A i \in 1..Len(shards') : shards'[i].telemetry = newTelemetry
      ]_vars

\* an entry of shard i under key k whose expiry lies before the clock reading
PastExpiry(i, k) ==
    /\ k \in DOMAIN shards[i].nodes
    /\ shards[i].ttl[shards[i].nodes[k]] # ZeroTime
    /\ shards[i].ttl[shards[i].nodes[k]] < now

StoresNewKey ==
    /\ CallOf(StoreOps)
    /\ last'.err = ErrNone
    /\ last'.ret \notin DOMAIN shards[ShardOf(last'.ret)].nodes

StoresHeldKey ==
    /\ CallOf(StoreOps)
    /\ last'.err = ErrNone
    /\ last'.ret \in DOMAIN shards[ShardOf(last'.ret)].nodes

\* C13: on a started cache whose shards were never released, every Set,
\* SetWithTTL and Get of the tasks and every sweep completes without a crash
\* and leaves every shard with as many mapped keys as linked nodes.
C13_TasksComplete ==
    [][(/\ status = Started
        /\ Len(shards) = maxShards
        /\ CallOf({"Set", "SetWithTTL", "Get", "Tick"}))
          => /\ ~crashed'
             /\ last'.err # Panic
             /\ \A i \in 1..Len(shards') :
                   Cardinality(DOMAIN shards'[i].nodes) = shards'[i].len
      ]_vars

\* C14: between calls, on a cache whose shards were never released, the length
\* counter equals the number of entries held over all shards.
C14_LenIsOccupancy == (Len(shards) = maxShards) => (len = TotalEntries)

\* C15: a successful store under a key its shard does not hold raises the
\* length counter by one when it evicts nothing and leaves it unchanged when
\* it evicts, and it evicts an entry exactly when it reports an eviction.
C15_NewKeyCounts ==
    [][StoresNewKey
          => /\ last'.found = (last'.removed # {})
             /\ len' = (IF last'.found THEN len ELSE len + 1)
      ]_vars

\* a store of a new key has just evicted another entry with the counter at capacity
C15_Witness ==
    /\ last.op \in StoreOps
    /\ last.err = ErrNone
    /\ last.found
    /\ last.removed # {}
    /\ last.ret \notin last.removed
    /\ len = maxItems

\* C16: a successful store under a key its shard already holds leaves the
\* length counter unchanged.
C16_UpdateKeepsLen == [][StoresHeldKey => len' = len]_vars

C18_SweepLowersLen ==
    [][(CallOf({"Tick"}) /\ isCleanupTickerActive)
          => /\ last'.ret = Cardinality(last'.removed)
             /\ len' = len - last'.ret
      ]_vars

ValueOf(sh, key) == sh.val[sh.nodes[key]]

ExpiryOf(sh, key) == sh.ttl[sh.nodes[key]]

\* the keys of a shard from front to back, without key
OrderWithout(sh, key) == SelectSeq(KeysInOrder(sh), LAMBDA x : x # key)

\* C21: a successful store under a key its shard already holds replaces the
\* value and the expiry of that entry in place (a plain Set clears the expiry,
\* a SetWithTTL sets one after the current time), moves the entry to the front
\* and keeps the other entries, their values, expiries and relative order; the
\* size of the shard is unchanged and nothing is evicted, also when the length
\* counter is at or above maxItems.
C21_UpdateInPlace ==
    [][StoresHeldKey
          => LET k == last'.ret
                 i == ShardOf(k)
             IN /\ ValueOf(shards'[i], k) = last'.val
                /\ last'.op = "Set" => ExpiryOf(shards'[i], k) = ZeroTime
                /\ last'.op = "SetWithTTL" => ExpiryOf(shards'[i], k) > now
                /\ KeysInOrder(shards'[i]) = <<k>> \o OrderWithout(shards[i], k)
                /\ \A x \in DOMAIN shards[i].nodes \ {k} :
                      /\ ValueOf(shards'[i], x) = ValueOf(shards[i], x)
                      /\ ExpiryOf(shards'[i], x) = ExpiryOf(shards[i], x)
                /\ shards'[i].len = shards[i].len
                /\ DOMAIN shards'[i].nodes = DOMAIN shards[i].nodes
                /\ ~last'.found
                /\ last'.removed = {}
                /\ last'.hooks = <<"onUpdate">>
                /\ \A j \in 1..Len(shards) : j # i => shards'[j] = shards[j]
      ]_vars

\* a plain Set has just updated an entry with the counter already above maxItems
C21_Witness ==
    /\ last.op = "Set"
    /\ last.err = ErrNone
    /\ last.hooks = <<"onUpdate">>
    /\ len > maxItems
    /\ shards[ShardOf(last.ret)].len >= 2

\* C22: a Get that returns on a started cache returns no error; on a hit it
\* returns the value stored under the key and makes that entry the front of its
\* shard's list, keeping the entries, their values and expiries and the
\* relative order of the others; on a miss it returns the empty value and
\* leaves every shard as it was.
C22_GetHitAndMiss ==
    [][(CallOf({"Get"}) /\ status = Started /\ last'.err # Panic)
          => /\ last'.err = ErrNone
             /\ \A k \in AllKeys :
                   Get(k)
                      => LET i == ShardOf(k)
                         IN IF k \in DOMAIN shards[i].nodes
                            THEN /\ last'.ret = ValueOf(shards[i], k)
                                 /\ last'.hooks = <<"onHit">>
                                 /\ KeysInOrder(shards'[i])
                                      = <<k>> \o OrderWithout(shards[i], k)
                                 /\ shards'[i].len = shards[i].len
                                 /\ \A x \in DOMAIN shards[i].nodes :
                                       /\ ValueOf(shards'[i], x) = ValueOf(shards[i], x)
                                       /\ ExpiryOf(shards'[i], x) = ExpiryOf(shards[i], x)
                                 /\ \A j \in 1..Len(shards) : j # i => shards'[j] = shards[j]
                            ELSE /\ last'.ret = NilValue
                                 /\ last'.hooks = <<"onMiss">>
                                 /\ shards' = shards
      ]_vars

\* a Get has just returned the value of an entry, now at the front of a shard holding another
C22_Witness ==
    /\ last.op = "Get"
    /\ last.err = ErrNone
    /\ last.hooks = <<"onHit">>
    /\ last.ret = 2
    /\ \E i \in 1..Len(shards) :
          /\ shards[i].len >= 2
          /\ shards[i].val[Front(shards[i])] = 2
          /\ used[i][1] = shards[i].key[Front(shards[i])]
          /\ shards[i].val[Back(shards[i])] = 1

\* C23: Peek and Contains leave the recency order, the map, the values, the
\* expiries and the length counter as they were, whether the key is held or not.
C23_ReadsAreNeutral ==
    [][CallOf({"Peek", "Contains"})
          => /\ len' = len
             /\ used' = used
             /\ Len(shards') = Len(shards)
             /\ \A i \in 1..Len(shards) :
                   /\ KeysInOrder(shards'[i]) = KeysInOrder(shards[i])
                   /\ shards'[i].nodes = shards[i].nodes
                   /\ shards'[i].val = shards[i].val
                   /\ shards'[i].ttl = shards[i].ttl
                   /\ shards'[i].len = shards[i].len
      ]_vars

\* a Peek has just returned the value of an entry that is not at the front
C23_Witness ==
    /\ last.op = "Peek"
    /\ last.err = ErrNone
    /\ last.ret = 2
    /\ \E i \in 1..Len(shards) :
          /\ shards[i].len >= 2
          /\ \A k \in DOMAIN shards[i].nodes :
                ValueOf(shards[i], k) = 2 => shards[i].nodes[k] # Front(shards[i])

\* C24: a Remove that returns on a started cache reports removed = true
\* exactly when its shard held the key; afterwards the shard does not hold the
\* key and Contains does not find it, and all other entries keep their values,
\* their expiries and their relative order.
C24_RemoveReportsPresence ==
    [][(CallOf({"Remove"}) /\ status = Started /\ last'.err = ErrNone)
          => \A k \in AllKeys :
                CacheRemove(k)
                   => LET i == ShardOf(k)
                      IN /\ last'.found = (k \in DOMAIN shards[i].nodes)
                         /\ last'.removed = {k} \cap DOMAIN shards[i].nodes
                         /\ DOMAIN shards'[i].nodes = DOMAIN shards[i].nodes \ {k}
                         /\ ~ShardContains(shards'[i], k, shardTelemetryOn).found
                         /\ KeysInOrder(shards'[i]) = OrderWithout(shards[i], k)
                         /\ \A x \in DOMAIN shards'[i].nodes :
                               /\ ValueOf(shards'[i], x) = ValueOf(shards[i], x)
                               /\ ExpiryOf(shards'[i], x) = ExpiryOf(shards[i], x)
                         /\ \A j \in 1..Len(shards) : j # i => shards'[j] = shards[j]
      ]_vars

\* a Remove has just taken an entry out of a shard that keeps two others
C24_Witness ==
    /\ last.op = "Remove"
    /\ last.err = ErrNone
    /\ last.found
    /\ \E k \in last.removed :
          /\ shards[ShardOf(k)].len >= 2
          /\ k \notin DOMAIN shards[ShardOf(k)].nodes

\* C25: a Remove produces no evict event: it does not invoke onEvict and
\* leaves the evict counters as they were.
C25_RemoveIsNoEviction ==
    [][CallOf({"Remove"})
          => /\ \A n \in 1..Len(last'.hooks) : last'.hooks[n] # "onEvict"
             /\ Counter(shards', "Evict") = Counter(shards, "Evict")
      ]_vars

\* C27: with telemetry enabled and more than one shard, Telemetry on a cache
\* that is not closed returns a snapshot, summed over the shards into an
\* accumulator of its own: the call ends without an error and without a crash
\* and changes no counter of any shard.
C27_SnapshotIsSum ==
    [][(CallOf({"Telemetry"}) /\ status # Closed /\ shardTelemetryOn /\ Len(shards) > 1)
          => /\ last'.err \notin {ErrDisabled, Panic}
             /\ ~crashed'
             /\ \A i \in 1..Len(shards) : shards'[i].telemetry = shards[i].telemetry
      ]_vars

\* the keys of shard i whose expiry is set and strictly before the current time
PastKeys(i) == {k \in DOMAIN shards[i].nodes : PastExpiry(i, k)}

\* C26: a sweep at time now removes from every shard exactly the entries whose
\* expiry is set and strictly before now and returns their number; the other
\* entries, among them those that expire at now and those without an expiry,
\* remain with their values and expiries in unchanged relative order.
C26_SweepRemovesExactlyExpired ==
    [][(CallOf({"Tick"}) /\ isCleanupTickerActive)
          => /\ last'.removed = UNION {PastKeys(i) : i \in 1..Len(shards)}
             /\ last'.ret = Cardinality(last'.removed)
             /\ Len(shards') = Len(shards)
             /\ \A i \in 1..Len(shards) :
                   /\ DOMAIN shards'[i].nodes = DOMAIN shards[i].nodes \ PastKeys(i)
                   /\ KeysInOrder(shards'[i])
                        = SelectSeq(KeysInOrder(shards[i]), LAMBDA x : x \notin PastKeys(i))
                   /\ shards'[i].len = shards[i].len - Cardinality(PastKeys(i))
                   /\ \A x \in DOMAIN shards'[i].nodes :
                         /\ ValueOf(shards'[i], x) = ValueOf(shards[i], x)
                         /\ ExpiryOf(shards'[i], x) = ExpiryOf(shards[i], x)
      ]_vars

\* a sweep has just kept an entry that expires at the time of the sweep
C26_Witness ==
    /\ last.op = "Tick"
    /\ last.ret = 0
    /\ isCleanupTickerActive
    /\ \E i \in 1..Len(shards) :
          /\ shards[i].len >= 2
          /\ \E k \in DOMAIN shards[i].nodes : ExpiryOf(shards[i], k) = now

\* every goroutine that can hold a lock
Holders == Tasks \cup {PurgeTask} \cup {SweepTask(i) : i \in 1..Len(shards)}

\* C28: a hook that fails does not affect the cache: the call that invoked it
\* returns, no goroutine keeps a lock beyond the call of the shard's method,
\* and every shard whose lock is free has its map and its list in agreement.
C28_HookFailureContained ==
    /\ \A t \in Tasks : tasks[t].pc # "panicked"
    /\ \A t \in Tasks : \A i \in 1..Len(shards) : Holds(t, i) => tasks[t].pc = "locked"
    /\ \A i \in 1..Len(shards) : locks[i] = FreeLock => MapListAgree(shards[i])

\* the locks as the discipline allows them: an exclusive holder is alone, no
\* goroutine holds the locks of two shards, and a call that runs its shard's
\* method holds that shard's lock, Contains and Peek the shared one, Set,
\* SetWithTTL, Get and Remove the exclusive one
LocksWellHeld ==
    /\ \A i \in 1..Len(shards) :
          /\ locks[i].w \in Holders \cup {NoTask}
          /\ locks[i].r \subseteq Holders
          /\ locks[i].w # NoTask => locks[i].r = {}
    /\ \A h \in Holders : \A i, j \in 1..Len(shards) :
          Holds(h, i) /\ Holds(h, j) => i = j
    /\ \A t \in Tasks :
          tasks[t].pc = "locked"
             => IF tasks[t].op \in SharedOps
                THEN t \in locks[TaskShard(t)].r
                ELSE locks[TaskShard(t)].w = t
    /\ purging.pc = "purge" => locks[purging.shardId + 1].w = PurgeTask
    /\ \A i \in 1..Len(shards) : sweeping[i].pc = "clean" => locks[i].w = SweepTask(i)

\* C29: every change of a shard's map or list is a step of the goroutine that
\* holds the exclusive lock of that shard; Contains and Peek run under the
\* shared lock; a shard never has an exclusive holder together with another
\* holder; and no goroutine holds the locks of two shards at the same time.
C29_LockingDiscipline ==
    [][/\ LocksWellHeld
       /\ LocksWellHeld'
       /\ \A i \in 1..Len(shards) :
             shards'[i] # shards[i]
                => \/ \E t \in Tasks : locks[i].w = t /\ tasks'[t] # tasks[t]
                   \/ locks[i].w = PurgeTask /\ purging' # purging
                   \/ locks[i].w = SweepTask(i) /\ sweeping'[i] # sweeping[i]
      ]_vars

\* the purge holds the lock of the second shard while a sweep goroutine holds
\* that of the first, where a store and a reader wait
C29_Witness ==
    /\ Len(shards) = 2
    /\ locks[2].w = PurgeTask
    /\ locks[1].w = SweepTask(1)
    /\ tasks[1].pc = "routed" /\ tasks[1].op = "Set" /\ TaskShard(1) = 1
    /\ tasks[2].pc = "routed" /\ TaskShard(2) = 1

\* C30: while the cache is Stopped no step of a Set, SetWithTTL, Get or Remove
\* changes a shard, and from the return of a successful Purge to the next
\* Start every shard is empty.
C30_StoppedGateExcludes ==
    [][/\ (status = Stopped /\ \E t \in Tasks : tasks'[t] # tasks[t]) => shards' = shards
       /\ (status' = Stopped /\ purging'.pc = "returned")
             => \A i \in 1..Len(shards') : ShardEmpty(shards'[i])
      ]_vars

\* every shard but the one key routes to is left as it was
OthersUnchanged(key) ==
    \A j \in 1..Len(shards) : j # ShardOf(key) => shards'[j] = shards[j]

\* C36: a Set, SetWithTTL, Get, Peek, Contains or Remove that returns changes
\* no shard but the one its key routes to, and a sweep changes no shard but
\* those that hold an entry past its expiry.
C36_ShardsAreIsolated ==
    [][/\ (CallOf(StoreOps) /\ last'.err = ErrNone) => OthersUnchanged(last'.ret)
       /\ (CallOf({"Get"}) /\ last'.err = ErrNone)
             => \A k \in AllKeys : Get(k) => OthersUnchanged(k)
       /\ (CallOf({"Peek"}) /\ last'.err = ErrNone)
             => \A k \in AllKeys : Peek(k) => OthersUnchanged(k)
       /\ (CallOf({"Contains"}) /\ last'.err = ErrNone)
             => \A k \in AllKeys : Contains(k) => OthersUnchanged(k)
       /\ (CallOf({"Remove"}) /\ last'.err = ErrNone)
             => \A k \in AllKeys : CacheRemove(k) => OthersUnchanged(k)
       /\ CallOf({"Tick"})
             => \A i \in 1..Len(shards) : PastKeys(i) = {} => shards'[i] = shards[i]
      ]_vars

\* a sweep has just removed an entry from one shard while another holds an entry
C36_Witness ==
    /\ last.op = "Tick"
    /\ last.ret = 1
    /\ \E i \in 1..Len(shards) :
          /\ shards[i].len >= 1
          /\ \A k \in last.removed : ShardOf(k) # i

\* C34: while the shard array is allocated, the index the default routing
\* function computes from a key and maxItems addresses one of its shards.
C34_RoutingInRange ==
    Len(shards) = maxShards =>
        \A key \in AllKeys : InRange(generateShardId(key, maxItems))

\* no sweep goroutine is under way
NoSweepRuns == \A i \in DOMAIN sweeping : sweeping[i].pc = "idle"

\* the step starts a sweep goroutine
FanOutStarts ==
    \E i \in DOMAIN sweeping : sweeping[i].pc = "idle" /\ sweeping'[i].pc = "lock"

\* C31: once the context has been cancelled no step starts a sweep fan-out.
C31_NoFanOutAfterCancel == [][ticking.done => ~FanOutStarts]_vars

\* C32: while the context is cancelled and the scheduler has not returned, the
\* program runs and no sweep goroutine waits for a lock whose holder has left
\* its call without releasing it, so that the fan-out can complete and the
\* scheduler return.
C32_FanOutCanComplete ==
    (ticking.done /\ ~ticking.returned) =>
        /\ ~crashed
        /\ \A i \in DOMAIN sweeping : sweeping[i].pc = "lock" =>
              \A t \in Tasks : ~(locks[i].w = t /\ tasks[t].pc = "panicked")

\* the scheduler handles a tick
TickStep ==
    /\ NoSweepRuns
    /\ last'.op = "Tick"
    /\ last' # last \/ sweeping' # sweeping

\* C33: a tick handled with the toggle active, Started or Stopped, starts one
\* sweep for every shard and touches nothing else; each sweep locks, cleans its
\* shard once and returns; the scheduler handles a tick, a toggle or the
\* cancellation only while no sweep is under way, and a sweep starts only in a
\* tick; a tick handled with the toggle inactive changes nothing but the
\* scheduler's record of it.
C33_TickSweepsEveryShardOnce ==
    [][/\ (TickStep /\ isCleanupTickerActive /\ status \in {Started, Stopped})
             => /\ \A i \in 1..Len(shards) : sweeping'[i].pc = "lock"
                /\ UNCHANGED <<status, shards, len, locks, tasks, isCleanupTickerActive,
                               ticking>>
       /\ (TickStep /\ ~isCleanupTickerActive)
             => UNCHANGED <<config, status, shards, len, isCleanupTickerActive, now,
                            crashed, used, tasking>>
       /\ \A i \in DOMAIN sweeping :
             sweeping'[i] # sweeping[i] =>
                /\ sweeping[i].pc = "idle" => TickStep /\ sweeping'[i].pc = "lock"
                /\ sweeping[i].pc = "lock" => sweeping'[i].pc = "clean" /\ locks'[i].w = SweepTask(i)
                /\ sweeping[i].pc = "clean"
                      => /\ sweeping'[i].pc \in {"idle", "add"}
                         /\ shards'[i] = gc(CleanupShard(shards[i], now, shardTelemetryOn).sh)
                         /\ \A j \in 1..Len(shards) : j # i => shards'[j] = shards[j]
                /\ sweeping[i].pc = "add" => sweeping'[i].pc = "idle"
       /\ (last' # last \/ isCleanupTickerActive' # isCleanupTickerActive
              \/ ticking'.returned # ticking.returned) => NoSweepRuns
      ]_vars

\* the scheduler has joined the sweeps of a tick handled while the cache was
\* Stopped, and a sweep has removed the only entry
C33_Witness ==
    /\ last.op = "Tick"
    /\ last.found
    /\ last.ret = maxShards
    /\ NoSweepRuns
    /\ Len(shards) = maxShards
    /\ TotalEntries = 0
    /\ len >= 2

\* C35: once Close has released the shard array no goroutine panics on it.
C35_CloseIsSafe == [][status = Closed => ~crashed']_vars

====
